---- MODULE Spec2Model ----
(***************************************************************************)
(* A model of pyFAST's regression-test Executor (src/pyFAST/executor.py):  *)
(* construction and validation of the inputs, the directory references,    *)
(* the creation of the local output directories on a filesystem, and the   *)
(* parallel run of the cases on a multiprocessing Pool.                    *)
(***************************************************************************)
EXTENDS Integers, Sequences, FiniteSets, TLC

(***************************************************************************)
(* Bounds of the model.                                                    *)
(***************************************************************************)
\* longest case list handed to the constructor
MaxCases == 2
\* largest cpu_count() of the machine
MaxCpu == 2
\* largest `jobs` argument
MaxJobs == 2
\* most source fixtures absent from the repository at the start
MaxMissing == 1
\* most entries already present under build/local_results (or the working
\* directory) at the start
MaxPresent == 1
\* largest cpu_count(), jobs argument and case list of ResolveSpec
MaxResolveCpu == 10
MaxResolveJobs == 6
MaxResolveCases == 20

(***************************************************************************)
(* CASE_MAP and the names the case lists of the model are drawn from.      *)
(***************************************************************************)
Regression == {"5MW_ITIBarge_DLL_WTurb_WavesIrr", "5MW_Land_BD_DLL_WTurb",
               "5MW_Land_DLL_WTurb", "5MW_OC3Mnpl_DLL_WTurb_WavesIrr",
               "5MW_OC3Spar_DLL_WTurb_WavesIrr", "5MW_OC3Trpd_DLL_WSt_WavesReg",
               "5MW_OC4Jckt_DLL_WTurb_WavesIrr_MGrowth", "5MW_OC4Semi_WSt_WavesWN",
               "5MW_TLP_DLL_WTurb_WavesIrr_WavesMulti", "AOC_WSt", "AOC_YFix_WSt",
               "AOC_YFree_WTurb", "AWT_WSt_StartUpShutDown",
               "AWT_WSt_StartUp_HighSpShutDown", "AWT_YFix_WSt", "AWT_YFree_WSt",
               "AWT_YFree_WTurb", "SWRT_YFree_VS_EDC01", "SWRT_YFree_VS_EDG01",
               "SWRT_YFree_VS_WTurb", "UAE_Dnwind_YRamp_WSt",
               "UAE_Upwind_Rigid_WRamp_PwrCurve", "WP_VSP_ECD", "WP_VSP_WTurb",
               "WP_VSP_WTurb_PitchFail"}

Linear == {"5MW_Land_BD_Linear", "Ideal_Beam_Fixed_Free_Linear",
           "Ideal_Beam_Free_Free_Linear", "WP_Stationary_Linear"}

BeamDyn == {"bd_5MW_dynamic", "bd_5MW_dynamic_gravity_Az00",
            "bd_5MW_dynamic_gravity_Az90", "bd_curved_beam", "bd_isotropic_rollup",
            "bd_static_cantilever_beam", "bd_static_twisted_with_k1"}

CASE_MAP == [c \in Regression \cup Linear \cup BeamDyn |->
               IF c \in Regression THEN "regression"
               ELSE IF c \in Linear THEN "linear" ELSE "beamdyn"]

\* the names of CASE_MAP that contain the substring "5MW"
Names5MW == {"5MW_ITIBarge_DLL_WTurb_WavesIrr", "5MW_Land_BD_DLL_WTurb",
             "5MW_Land_BD_Linear", "5MW_Land_DLL_WTurb",
             "5MW_OC3Mnpl_DLL_WTurb_WavesIrr", "5MW_OC3Spar_DLL_WTurb_WavesIrr",
             "5MW_OC3Trpd_DLL_WSt_WavesReg", "5MW_OC4Jckt_DLL_WTurb_WavesIrr_MGrowth",
             "5MW_OC4Semi_WSt_WavesWN", "5MW_TLP_DLL_WTurb_WavesIrr_WavesMulti",
             "bd_5MW_dynamic", "bd_5MW_dynamic_gravity_Az00",
             "bd_5MW_dynamic_gravity_Az90"}

\* one case of each category, with and without "5MW" in the name, and a
\* name that is no key of CASE_MAP
CaseNames == {"AOC_WSt", "5MW_Land_BD_Linear", "bd_curved_beam", "NotACase"}

(***************************************************************************)
(* The filesystem: a function from the paths that exist (sequences of      *)
(* names) to a node, a directory or a regular file with its content.       *)
(***************************************************************************)
Dir == <<"dir">>

File(content) == <<"file", content>>

IsPrefix(p, q) == Len(p) <= Len(q) /\ SubSeq(q, 1, Len(p)) = p

Ancestors(p) == {SubSeq(p, 1, k) : k \in 1..(Len(p) - 1)}

Basename(p) == p[Len(p)]

Dirname(p) == SubSeq(p, 1, Len(p) - 1)

isdir(f, p) == p \in DOMAIN f /\ f[p] = Dir

isfile(f, p) == p \in DOMAIN f /\ f[p] # Dir

listdir(f, p) == {q[Len(q)] : q \in {x \in DOMAIN f : Len(x) = Len(p) + 1 /\ IsPrefix(p, x)}}

\* the outcome of a filesystem operation: the filesystem it leaves and the
\* exception it raised ("none": it returned)
Ok(f) == [fs |-> f, err |-> "none"]

Raise(f, e) == [fs |-> f, err |-> e]

makedirs(f, p) ==
  IF p \in DOMAIN f THEN Raise(f, "FileExistsError")
  ELSE IF \E a \in Ancestors(p) : isfile(f, a) THEN Raise(f, "NotADirectoryError")
  ELSE Ok([q \in DOMAIN f \cup Ancestors(p) \cup {p} |->
             IF q \in DOMAIN f THEN f[q] ELSE Dir])

\* shutil.copytree(src, dst, ignore): dst must not exist; the entries whose
\* name (at any depth) the ignore callback returns are left out
copytree(f, src, dst, ignore) ==
  IF src \notin DOMAIN f THEN Raise(f, "FileNotFoundError")
  ELSE IF ~isdir(f, src) THEN Raise(f, "NotADirectoryError")
  ELSE LET m == makedirs(f, dst)
           copied == {q \in DOMAIN f :
                        /\ IsPrefix(src, q) /\ Len(q) > Len(src)
                        /\ \A k \in (Len(src) + 1)..Len(q) : q[k] \notin ignore}
           to(q) == dst \o SubSeq(q, Len(src) + 1, Len(q))
           from(t) == src \o SubSeq(t, Len(dst) + 1, Len(t))
       IN IF m.err # "none" THEN m
          ELSE Ok([t \in DOMAIN m.fs \cup {to(q) : q \in copied} |->
                     IF t \in DOMAIN m.fs THEN m.fs[t] ELSE f[from(t)]])

\* shutil.copy / shutil.copy2(src, dst): into dst when dst is a directory,
\* onto dst otherwise; an existing regular file is overwritten
copy(f, src, dst) ==
  LET real == IF isdir(f, dst) THEN dst \o <<Basename(src)>> ELSE dst
  IN IF src \notin DOMAIN f THEN Raise(f, "FileNotFoundError")
     ELSE IF isdir(f, src) THEN Raise(f, "IsADirectoryError")
     ELSE IF real = src THEN Raise(f, "SameFileError")
     ELSE IF isdir(f, real) THEN Raise(f, "IsADirectoryError")
     ELSE IF ~isdir(f, Dirname(real)) THEN Raise(f, "FileNotFoundError")
     ELSE Ok([q \in DOMAIN f \cup {real} |-> IF q = real THEN f[src] ELSE f[q]])

\* the names of a directory listing as a sequence (os.listdir fixes no order)
RECURSIVE SetToSeq(_)
SetToSeq(S) ==
  IF S = {} THEN <<>>
  ELSE LET x == CHOOSE y \in S : TRUE IN <<x>> \o SetToSeq(S \ {x})

(***************************************************************************)
(* The paths of the Executor (os.path.join is the concatenation).          *)
(***************************************************************************)
\* the `source` argument: the OpenFAST repository
Source == <<"openfast">>

Build == Source \o <<"build">>

Rtest == Source \o <<"reg_tests", "r-test">>

Module == Rtest \o <<"glue-codes", "openfast">>

LocalResults == Build \o <<"local_results">>

\* the working directory of the process: a relative path is looked up here
Cwd == <<"cwd">>

OpenfastExe == <<"install", "bin", "openfast">>

BeamdynExe == <<"install", "bin", "beamdyn_driver">>

\* an OpenFAST executable whose path ends with neither of the two names
OpenfastWinExe == <<"install", "bin", "openfast.exe">>

\* pyfast.utilities.ignore_baseline: the names copytree leaves out, the
\* directories of the baseline results
IgnoreBaseline == {"linux-intel", "linux-gnu", "macos-gnu", "windows-intel"}

BdFiles == <<"bd_driver.inp", "bd_primary.inp", "beam_props.inp">>

DllFiles == << <<"DISCON", "build", "DISCON.dll">>,
               <<"DISCON_ITI", "build", "DISCON_ITIBarge.dll">>,
               <<"DISCON_OC3", "build", "DISCON_OC3Hywind.dll">> >>

LinearDirs == <<"Ideal_Beam", "WP_Baseline">>

RegressionDirs == <<"AOC", "AWT27", "SWRT", "UAE_VI", "WP_Baseline">>

Range(s) == {s[i] : i \in 1..Len(s)}

InputDir(c) ==
  IF CASE_MAP[c] = "beamdyn" THEN Rtest \o <<"modules", "beamdyn", c>>
  ELSE Module \o <<c>>

(***************************************************************************)
(* The repository as checked out: the fixtures of r-test, the build        *)
(* directory and the two executables.  The content of a fixture file is    *)
(* its own path, so that a copy tells where it came from.                  *)
(***************************************************************************)
ModelCases == CaseNames \cap DOMAIN CASE_MAP

CaseFixtures(c) ==
  IF CASE_MAP[c] = "beamdyn"
  THEN {InputDir(c) \o <<b>> : b \in Range(BdFiles)}
         \cup {InputDir(c) \o <<"linux-gnu", "bd_driver.out">>}
  ELSE {InputDir(c) \o <<c \o ".fst">>, InputDir(c) \o <<"linux-gnu", c \o ".outb">>}

SourceFiles ==
  UNION {CaseFixtures(c) : c \in ModelCases}
    \cup {Module \o <<d, "blade.dat">> : d \in Range(LinearDirs) \cup Range(RegressionDirs)}
    \cup {Module \o <<"5MW_Baseline", "ServoData">> \o d : d \in Range(DllFiles)}
    \cup {Module \o <<"5MW_Baseline", "NRELOffshrBsline5MW_Blade.dat">>,
          Module \o <<"5MW_Baseline", "Airfoils", "Cylinder1.dat">>,
          Module \o <<"5MW_Baseline", "ServoData", "DISCON", "DISCON.F90">>,
          OpenfastExe, BeamdynExe, OpenfastWinExe}

SourceDirs == {Build, Cwd} \cup UNION {Ancestors(p) : p \in SourceFiles}

Repository ==
  [p \in SourceDirs \cup SourceFiles |-> IF p \in SourceDirs THEN Dir ELSE File(p)]

\* f without the subtrees at the paths of gone
Without(f, gone) ==
  [p \in {q \in DOMAIN f : \A g \in gone : ~IsPrefix(g, q)} |-> f[p]]

\* f with the entries of more (path, node) put in, below directories
With(f, more) ==
  LET paths == {e[1] : e \in more}
      dirs == UNION {Ancestors(p) : p \in paths}
  IN [p \in DOMAIN f \cup dirs \cup paths |->
        IF \E e \in more : e[1] = p THEN (CHOOSE e \in more : e[1] = p)[2]
        ELSE IF p \in DOMAIN f THEN f[p] ELSE Dir]

\* content of a file that was not copied from the fixtures
Stale == File(<<"stale">>)

(***************************************************************************)
(* Executor.__init__ and Executor._validate_inputs.                        *)
(***************************************************************************)
SYSTEM_MAP == ("Darwin" :> "macos") @@ ("Linux" :> "linux") @@ ("Windows" :> "windows")

\* str.lower on the compiler ids of the model
Lower(s) == IF s = "GNU" THEN "gnu" ELSE IF s = "Intel" THEN "intel" ELSE s

OutputTypes == {"macos-gnu", "linux-intel", "linux-gnu", "windows-intel"}

PlotOpts == {0, 1, 2}

Min(a, b) == IF a <= b THEN a ELSE b

\* int(np.ceil(cpu_count() * 0.8))
Ceil80(cpu) == (8 * cpu + 9) \div 10

\* an executable path ends with "openfast" / with "beamdyn_driver"
EndsWithOpenfast(exe) == Basename(exe) \in {"openfast"}

EndsWithBeamdynDriver(exe) == Basename(exe) \in {"beamdyn_driver"}

\* the loop over `executable`: the pair (of_executable, bd_executable)
RECURSIVE SelectExecutables(_, _, _)
SelectExecutables(exes, of, bd) ==
  IF exes = <<>> THEN <<of, bd>>
  ELSE IF EndsWithOpenfast(Head(exes)) THEN SelectExecutables(Tail(exes), Head(exes), bd)
  ELSE IF EndsWithBeamdynDriver(Head(exes)) THEN SelectExecutables(Tail(exes), of, Head(exes))
  ELSE SelectExecutables(Tail(exes), of, bd)

\* InitialJobs with the jobs argument kept as it is
InitialJobsKeepsZero(jobs) == jobs

\* self.jobs = jobs if jobs != 0 else -1
InitialJobs(jobs) == IF jobs # 0 THEN jobs ELSE -1

\* the jobs of _validate_inputs, once it is known not to be below -1
ResolveJobs(j, cpu, n) ==
  LET j1 == IF j = -1 THEN Ceil80(cpu) ELSE j
      j2 == IF j1 > 0 THEN Min(j1, cpu) ELSE j1
  IN IF j2 > n THEN n ELSE j2

\* pyfast.utilities.validate_executable / validate_directory
validate_executable(f, exe) == isfile(f, exe)

validate_directory(f, d) == isdir(f, d)

\* ResolveOutputType with the output type kept whatever it is
ResolveOutputTypeKept(type) == type

\* _validate_inputs: an output type outside _opts becomes "macos-gnu"
ResolveOutputType(type) == IF type \in OutputTypes THEN type ELSE "macos-gnu"

\* self.bd_executable != self.source, self.of_executable != self.source: an
\* executable of the list is a Path other than the source; one left at its
\* default is `source` as it was passed, which differs from Path(source)
\* when it was passed as a str
DiffersFromSource(exe, a) == IF exe = Source THEN a.source_type = "str" ELSE TRUE

\* the object __init__ builds from its arguments on filesystem f of a machine
\* with cpu cores, and the exception it raises ("none": it returns)
Executor(a, f, cpu) ==
  LET exes == SelectExecutables(a.executable, Source, Source)
      type == SYSTEM_MAP[a.system] \o "-" \o Lower(a.compiler)
      jobs == InitialJobs(a.jobs)
      obj == [case |-> a.case,
              compiler |-> a.compiler,
              output_type |-> ResolveOutputType(type),
              execution |-> a.execution,
              tolerance |-> a.tolerance,
              plot |-> a.plot,
              jobs |-> jobs,
              of_executable |-> exes[1],
              bd_executable |-> exes[2],
              inputs |-> <<>>,
              outputs |-> <<>>,
              test_build |-> <<>>]
  IN IF DiffersFromSource(exes[2], a) /\ ~validate_executable(f, exes[2])
       THEN [self |-> obj, err |-> "FileNotFoundError"]
     ELSE IF DiffersFromSource(exes[1], a) /\ ~validate_executable(f, exes[1])
       THEN [self |-> obj, err |-> "FileNotFoundError"]
     ELSE IF ~validate_directory(f, Build)
       THEN [self |-> obj, err |-> "FileNotFoundError"]
     ELSE IF a.plot \notin PlotOpts THEN [self |-> obj, err |-> "ValueError"]
     ELSE IF jobs < -1 THEN [self |-> obj, err |-> "ValueError"]
     ELSE [self |-> [obj EXCEPT !.jobs = ResolveJobs(jobs, cpu, Len(a.case))],
           err |-> "none"]

(***************************************************************************)
(* Executor._build_directory_references.                                   *)
(***************************************************************************)
\* the cases before the first one that is no key of CASE_MAP (KeyError)
KnownPrefix(case) ==
  LET bad == {i \in 1..Len(case) : case[i] \notin DOMAIN CASE_MAP}
  IN IF bad = {} THEN Len(case) ELSE (CHOOSE i \in bad : \A j \in bad : i <= j) - 1

_build_directory_references(self) ==
  LET n == KnownPrefix(self.case)
      inputs == [i \in 1..n |-> InputDir(self.case[i])]
  IN [self |-> [self EXCEPT
                  !.inputs = inputs,
                  !.outputs = [i \in 1..n |-> inputs[i] \o <<self.output_type>>],
                  !.test_build = [i \in 1..n |-> LocalResults \o <<self.case[i]>>]],
      err |-> IF n = Len(self.case) THEN "none" ELSE "KeyError"]

(***************************************************************************)
(* The creation of the local output directories.  Every operator takes the *)
(* outcome r of what ran before it and passes an exception on.             *)
(***************************************************************************)
\* the first index of c in case (list.index)
Index(case, c) == CHOOSE i \in 1..Len(case) : case[i] = c /\ \A j \in 1..(i - 1) : case[j] # c

\* the cases of case that satisfy keep, in order (a list comprehension)
RECURSIVE Select(_, _)
Select(case, keep) ==
  IF case = <<>> THEN <<>>
  ELSE (IF Head(case) \in keep THEN <<Head(case)>> ELSE <<>>) \o Select(Tail(case), keep)

\* the inner loop of _build_beamdyn_output_directories
RECURSIVE CopyBdFiles(_, _, _, _)
CopyBdFiles(r, files, in_dir, test) ==
  IF files = <<>> \/ r.err # "none" THEN r
  ELSE CopyBdFiles(copy(r.fs, in_dir \o <<Head(files)>>, test), Tail(files), in_dir, test)

RECURSIVE _build_beamdyn_output_directories(_, _, _)
_build_beamdyn_output_directories(r, self, to_build) ==
  IF to_build = <<>> \/ r.err # "none" THEN r
  ELSE LET ix == Index(self.case, Head(to_build))
       IN _build_beamdyn_output_directories(
            CopyBdFiles(r, BdFiles, self.inputs[ix], self.test_build[ix]),
            self, Tail(to_build))

\* CopyDlls with every library copied, the one already in target too
RECURSIVE CopyDllsAlways(_, _, _, _)
CopyDllsAlways(r, dlls, source, target) ==
  IF dlls = <<>> \/ r.err # "none" THEN r
  ELSE CopyDllsAlways(copy(r.fs, source \o Head(dlls), target), Tail(dlls), source, target)

\* the loop of _check_5MW_dll_files over the three libraries
RECURSIVE CopyDlls(_, _, _, _)
CopyDlls(r, dlls, source, target) ==
  IF dlls = <<>> \/ r.err # "none" THEN r
  ELSE LET to_copy == source \o Head(dlls)
           check == target \o <<Basename(Head(dlls))>>
       IN CopyDlls(IF ~isfile(r.fs, check) THEN copy(r.fs, to_copy, target) ELSE r,
                   Tail(dlls), source, target)

_check_5MW_dll_files(r) ==
  LET source == Module \o <<"5MW_Baseline", "ServoData">>
      target == LocalResults \o <<"5MW_Baseline", "ServoData">>
      made == IF r.err = "none" /\ ~isdir(r.fs, target) THEN makedirs(r.fs, target) ELSE r
  IN CopyDlls(made, DllFiles, source, target)

\* the loop of _build_5MW_directories over os.listdir(source)
RECURSIVE Copy5MWEntries(_, _, _, _)
Copy5MWEntries(r, names, source, target) ==
  IF names = <<>> \/ r.err # "none" THEN r
  ELSE LET name == Head(names)
           src == source \o <<name>>
           dst == target \o <<name>>
           step == IF name = "ServoData" THEN r
                   ELSE IF isdir(r.fs, src)
                     THEN (IF ~isdir(r.fs, dst) THEN copytree(r.fs, src, dst, {}) ELSE r)
                   ELSE copy(r.fs, src, dst)
       IN Copy5MWEntries(step, Tail(names), source, target)

_build_5MW_directories(r) ==
  LET source == Module \o <<"5MW_Baseline">>
      target == LocalResults \o <<"5MW_Baseline">>
  IN IF r.err # "none" THEN r
     ELSE IF ~isdir(r.fs, target) THEN copytree(r.fs, source, target, {})
     ELSE IF ~isdir(r.fs, source)
       THEN Raise(r.fs, IF source \in DOMAIN r.fs THEN "NotADirectoryError"
                        ELSE "FileNotFoundError")
     ELSE Copy5MWEntries(r, SetToSeq(listdir(r.fs, source)), source, target)

\* os.path.isfile(f) for a name f of os.listdir(input_dir): the name alone
\* is a path relative to the working directory
ListedIsFile(f, input_dir, name) == isfile(f, Cwd \o <<name>>)

\* the loop of _build_test_directory over os.listdir(input_dir)
RECURSIVE CopyListed(_, _, _, _)
CopyListed(r, names, input_dir, test_dir) ==
  IF names = <<>> \/ r.err # "none" THEN r
  ELSE CopyListed(IF ListedIsFile(r.fs, input_dir, Head(names))
                    THEN copy(r.fs, input_dir \o <<Head(names)>>, test_dir)
                  ELSE r,
                  Tail(names), input_dir, test_dir)

\* _build_test_directory, from the i-th pair of zip(inputs, test_build) on
RECURSIVE _build_test_directory(_, _, _)
_build_test_directory(r, self, i) ==
  IF i > Len(self.inputs) \/ r.err # "none" THEN r
  ELSE LET input_dir == self.inputs[i]
           test_dir == self.test_build[i]
           step == IF ~isdir(r.fs, test_dir)
                     THEN copytree(r.fs, input_dir, test_dir, IgnoreBaseline)
                   ELSE IF ~isdir(r.fs, input_dir)
                     THEN Raise(r.fs, IF input_dir \in DOMAIN r.fs THEN "NotADirectoryError"
                                      ELSE "FileNotFoundError")
                   ELSE CopyListed(r, SetToSeq(listdir(r.fs, input_dir)), input_dir, test_dir)
       IN _build_test_directory(step, self, i + 1)

\* the loop of _build_test_output_directories over `directories`
RECURSIVE CopyShared(_, _)
CopyShared(r, directories) ==
  IF directories = <<>> \/ r.err # "none" THEN r
  ELSE LET dir == LocalResults \o <<Head(directories)>>
       IN CopyShared(IF ~isdir(r.fs, dir)
                       THEN copytree(r.fs, Module \o <<Head(directories)>>, dir, {})
                     ELSE r,
                     Tail(directories))

\* `directories`: the shared directories of the case types of the plan
Directories(case_types) ==
  (IF "linear" \in case_types THEN LinearDirs ELSE <<>>)
    \o (IF "regression" \in case_types THEN RegressionDirs ELSE <<>>)

_build_test_output_directories(f, self) ==
  LET case_types == {CASE_MAP[c] : c \in Range(self.case)}
      to_build_5mw == Select(self.case, Names5MW)
      to_build_beamdyn == IF "beamdyn" \in case_types THEN Select(self.case, BeamDyn)
                          ELSE <<>>
      shared == CopyShared(Ok(f), Directories(case_types))
      tests == _build_test_directory(shared, self, 1)
      beamdyn == _build_beamdyn_output_directories(tests, self, to_build_beamdyn)
      dlls == _check_5MW_dll_files(beamdyn)
  IN _build_5MW_directories(dlls)

(***************************************************************************)
(* Executor._run_single_case and Executor._run_openfast_cases.             *)
(***************************************************************************)
\* ix = f"{i}/{n_cases}", kept as the pair of its two numbers
Ix(i, n) == <<i, n>>

\* ix.split('/')[0]
Ordinal(ix) == ix[1]

\* Arguments with the ordinals counted to n_cases - 1, which zip cuts to
ArgumentsButLast(self) ==
  [i \in 1..(Min(Len(self.case), Len(self.test_build)) - 1) |->
     <<<<i, Len(self.case)>>, self.case[i], self.test_build[i]>>]

\* arguments = list(zip(ix, self.case, self.test_build))
Arguments(self) ==
  [i \in 1..Min(Len(self.case), Len(self.test_build)) |->
     <<Ix(i, Len(self.case)), self.case[i], self.test_build[i]>>]

\* the call of run_openfast_case that _run_single_case makes for args
RunCall(self, a) ==
  LET beamdyn == CASE_MAP[a[2]] = "beamdyn"
  IN [exe |-> IF beamdyn THEN self.bd_executable ELSE self.of_executable,
      case_input |-> a[3] \o <<IF beamdyn THEN "bd_driver.inp" ELSE a[2] \o ".fst">>,
      ix |-> a[1],
      case |-> a[2],
      beamdyn |-> beamdyn]

\* pyfast.utilities.run_openfast_case: it returns the exit code of the
\* process it ran, zero or not
run_openfast_case(code) == code

\* what _run_single_case returns when the process ended with code
SingleCaseResult(code, a) == <<run_openfast_case(code), a[1], a[2]>>

\* PoolProcesses of a pool created without its argument: one worker a core
PoolOfAllCores(self, cpu) == cpu

\* Pool(self.jobs): the number of worker processes of the pool
PoolProcesses(self, cpu) == self.jobs

\* StoreResult of a map that collects the results as they come
StoreInCompletionOrder(res, i, r) ==
  LET k == CHOOSE j \in 1..Len(res) : res[j] = <<>> /\ \A m \in 1..(j - 1) : res[m] # <<>>
  IN [res EXCEPT ![k] = r]

\* pool.map puts the result of the i-th argument at the i-th place
StoreResult(res, i, r) == [res EXCEPT ![i] = r]

\* pool.map returns once every argument has its result
MapReturns(res) == \A i \in 1..Len(res) : res[i] # <<>>

\* Tally with the success count raised for every result
RECURSIVE TallyCountsEvery(_, _, _)
TallyCountsEvery(res, success, fail) ==
  IF res = <<>> THEN <<success, fail>>
  ELSE IF Head(res)[1] # 0
    THEN TallyCountsEvery(Tail(res), success + 1,
                          Append(fail, <<Ordinal(Head(res)[2]), Head(res)[3]>>))
  ELSE TallyCountsEvery(Tail(res), success + 1, fail)

\* the loop over results: the pair (success, fail), fail being the lines
\* (ordinal, case) joined onto "Failed cases:"
RECURSIVE Tally(_, _, _)
Tally(res, success, fail) ==
  IF res = <<>> THEN <<success, fail>>
  ELSE IF Head(res)[1] # 0
    THEN Tally(Tail(res), success, Append(fail, <<Ordinal(Head(res)[2]), Head(res)[3]>>))
  ELSE Tally(Tail(res), success + 1, fail)

(***************************************************************************)
(* The output files and Executor.read_out_files, Executor.test_norm and    *)
(* Executor.create_results_summary.                                        *)
(***************************************************************************)
\* pyfast.utilities.validate_file: the path is a file, or it raises
validate_file(f, p) == isfile(f, p)

\* pyfast.utilities.load_output: the data of an output file, its content
load_output(f, p) == f[p][2]

\* the name of the output file of a case: "<case>.outb" for
\* _get_regression_out_files, "bd_driver.out" for _get_beamdyn_out_files
OutFile(case) == IF CASE_MAP[case] = "beamdyn" THEN "bd_driver.out" ELSE case \o ".outb"

\* _get_regression_out_files / _get_beamdyn_out_files: the two paths, and
\* the exception of validate_file, the local file being validated first
GetOutFiles(f, case, out_dir, baseline_dir) ==
  LET local == out_dir \o <<OutFile(case)>>
      baseline == baseline_dir \o <<OutFile(case)>>
  IN [local |-> local,
      baseline |-> baseline,
      err |-> IF validate_file(f, local) /\ validate_file(f, baseline) THEN "none"
              ELSE "FileNotFoundError"]

\* FUNC_MAP[CASE_MAP[case]](case, out_dir, target): _get_linear_out_files
\* takes no argument, so that the call with three raises TypeError
CallOutFilesFunc(f, case, out_dir, target) ==
  IF CASE_MAP[case] = "linear"
    THEN [local |-> <<>>, baseline |-> <<>>, err |-> "TypeError"]
  ELSE GetOutFiles(f, case, out_dir, target)

\* the loop of read_out_files from the i-th triple of
\* zip(self.case, self.test_build, self.outputs) on; r holds the three lists
RECURSIVE ReadCases(_, _, _, _)
ReadCases(f, self, i, r) ==
  IF i > Min(Len(self.case), Min(Len(self.test_build), Len(self.outputs))) \/ r.err # "none"
    THEN r
  ELSE LET case == self.case[i]
           got == CallOutFilesFunc(f, case, self.test_build[i], self.outputs[i])
       IN ReadCases(f, self, i + 1,
            IF got.err # "none" THEN [r EXCEPT !.err = got.err]
            ELSE [case_list |-> Append(r.case_list, case),
                  test_list |-> Append(r.test_list, load_output(f, got.local)),
                  baseline_list |-> Append(r.baseline_list, load_output(f, got.baseline)),
                  err |-> "none"])

read_out_files(f, self) ==
  ReadCases(f, self, 1,
            [case_list |-> <<>>, test_list |-> <<>>, baseline_list |-> <<>>, err |-> "none"])

\* test_norm: the body of its loop reads `baseline` and `test`, names bound
\* neither in test_norm nor in the module, so that the first case raises
\* NameError; with no case the empty list is returned
test_norm(cases, baselines, tests) ==
  IF cases = <<>> THEN [norm_results |-> <<>>, err |-> "none"]
  ELSE [norm_results |-> <<>>, err |-> "NameError"]

\* create_results_summary: after self.plot_path it calls create_case_summary,
\* a name bound nowhere in the module
create_results_summary(self, cases, norms) == "NameError"

(***************************************************************************)
(* The state.                                                              *)
(***************************************************************************)
VARIABLES
  args,       \* the arguments of the constructor
  cpu,        \* cpu_count()
  fs,         \* the filesystem
  self,       \* the Executor
  pc,         \* where the caller is: "new", "constructed", "references",
              \* "built", "rebuilt", "mapping", "done", "ctor_raised", "run_raised",
              \* "read", "read_raised", "normed", "norm_raised", "summary_raised"
  error,      \* the exception raised, "none" if none
  built,      \* how _build_test_output_directories ended: "no", "returned", "raised"
  processes,  \* the worker processes of the pool
  tasks,      \* the arguments handed to pool.map
  launched,   \* the calls of run_openfast_case made so far, in order
  running,    \* the tasks whose external process is running
  codes,      \* the exit code of each task's process, -1 until it exits
  results,    \* the list pool.map builds
  success,    \* the tally printed, -1 until then
  fail,       \* the failing lines printed
  case_list,      \* what read_out_files returned: the cases,
  baseline_list,  \* their baseline outputs
  test_list,      \* and their local outputs
  norm_results    \* what test_norm returned

vars == <<args, cpu, fs, self, pc, error, built, processes, tasks, launched,
          running, codes, results, success, fail, case_list, baseline_list,
          test_list, norm_results>>

pool == <<processes, tasks, launched, running, codes, results, success, fail>>

post == <<case_list, baseline_list, test_list, norm_results>>

NoObject == [case |-> <<>>]

\* the exit codes a process ends with
ExitCodes == {0, 1, 2}

\* every list of at most n elements of S
Lists(S, n) == UNION {[1..k -> S] : k \in 0..n}

SubsetsUpTo(S, k) == {T \in SUBSET S : Cardinality(T) <= k}

\* the initial states: the arguments one of `arguments`, on the repository
\* without the fixtures of one of `gone` and with the entries of one of
\* `present`
InitOver(arguments, cpus, gone, present) ==
  /\ args \in arguments
  /\ cpu \in cpus
  /\ \E g \in gone, m \in present : fs = With(Without(Repository, g), m)
  /\ self = NoObject
  /\ pc = "new"
  /\ error = "none"
  /\ built = "no"
  /\ processes = 0
  /\ tasks = <<>>
  /\ launched = <<>>
  /\ running = {}
  /\ codes = <<>>
  /\ results = <<>>
  /\ success = -1
  /\ fail = <<>>
  /\ case_list = <<>>
  /\ baseline_list = <<>>
  /\ test_list = <<>>
  /\ norm_results = <<>>

\* the same, for both executables, the source a str, compiler "gnu" and
\* system "Linux"
InitFrom(cases, jobs, cpus, plots, tolerances, executions, gone, present) ==
  InitOver({[case |-> c, executable |-> <<OpenfastExe, BeamdynExe>>,
             source_type |-> "str",
             compiler |-> "gnu", system |-> "Linux", tolerance |-> t,
             plot |-> p, execution |-> e, jobs |-> j] :
              c \in cases, j \in jobs, p \in plots, t \in tolerances, e \in executions},
           cpus, gone, present)

(***************************************************************************)
(* The actions.                                                            *)
(***************************************************************************)
\* Executor(...)
Construct ==
  /\ pc = "new"
  /\ LET e == Executor(args, fs, cpu)
     IN IF e.err = "none"
          THEN /\ self' = e.self
               /\ pc' = "constructed"
               /\ error' = error
        ELSE /\ self' = self
             /\ pc' = "ctor_raised"
             /\ error' = e.err
  /\ UNCHANGED <<args, cpu, fs, built, pool, post>>

\* run(): self._build_directory_references(), and the return when there is
\* nothing to execute
RunBuildReferences ==
  /\ pc = "constructed"
  /\ LET r == _build_directory_references(self)
     IN /\ self' = r.self
        /\ error' = r.err
        /\ pc' = IF r.err # "none" THEN "run_raised"
                 ELSE IF self.execution THEN "references" ELSE "done"
  /\ UNCHANGED <<args, cpu, fs, built, pool, post>>

\* AfterBuild of a run() that goes on after an exception
AfterBuildSwallowed(err) == "built"

\* where run() is after _build_test_output_directories ended with err
AfterBuild(err) == IF err = "none" THEN "built" ELSE "run_raised"

\* run(): self._build_test_output_directories()
RunBuildOutputDirectories ==
  /\ pc = "references"
  /\ LET r == _build_test_output_directories(fs, self)
     IN /\ fs' = r.fs
        /\ error' = r.err
        /\ built' = IF r.err = "none" THEN "returned" ELSE "raised"
        /\ pc' = AfterBuild(r.err)
  /\ UNCHANGED <<args, cpu, self, pool, post>>

\* a second self._build_test_output_directories() on the same Executor
BuildOutputDirectoriesAgain ==
  /\ pc = "built"
  /\ LET r == _build_test_output_directories(fs, self)
     IN /\ fs' = r.fs
        /\ error' = r.err
        /\ pc' = IF r.err = "none" THEN "rebuilt" ELSE "run_raised"
  /\ UNCHANGED <<args, cpu, self, built, pool, post>>

\* _run_openfast_cases up to pool.map: Pool(n) raises ValueError for n < 1
StartPool ==
  /\ pc = "built"
  /\ IF PoolProcesses(self, cpu) < 1
       THEN /\ pc' = "run_raised"
            /\ error' = "ValueError"
            /\ UNCHANGED <<processes, tasks, codes, results>>
     ELSE /\ pc' = "mapping"
          /\ error' = error
          /\ processes' = PoolProcesses(self, cpu)
          /\ tasks' = Arguments(self)
          /\ codes' = [i \in 1..Len(Arguments(self)) |-> -1]
          /\ results' = [i \in 1..Len(Arguments(self)) |-> <<>>]
  /\ UNCHANGED <<args, cpu, fs, self, built, launched, running, success, fail, post>>

\* an idle worker takes the next task and starts its external process
Launch ==
  /\ pc = "mapping"
  /\ Len(launched) < Len(tasks)
  /\ Cardinality(running) < processes
  /\ launched' = Append(launched, RunCall(self, tasks[Len(launched) + 1]))
  /\ running' = running \cup {Len(launched) + 1}
  /\ UNCHANGED <<args, cpu, fs, self, pc, error, built, processes, tasks, codes,
                 results, success, fail, post>>

\* the process of task i exits with code; its worker returns the result
Exit(i, code) ==
  /\ pc = "mapping"
  /\ i \in running
  /\ running' = running \ {i}
  /\ codes' = [codes EXCEPT ![i] = code]
  /\ results' = StoreResult(results, i, SingleCaseResult(code, tasks[i]))
  /\ UNCHANGED <<args, cpu, fs, self, pc, error, built, processes, tasks, launched,
                 success, fail, post>>

\* pool.map returns, and _run_openfast_cases counts and prints
Report ==
  /\ pc = "mapping"
  /\ MapReturns(results)
  /\ LET t == Tally(results, 0, <<>>)
     IN success' = t[1] /\ fail' = t[2]
  /\ pc' = "done"
  /\ UNCHANGED <<args, cpu, fs, self, error, built, processes, tasks, launched,
                 running, codes, results, post>>

\* read_out_files() after a run()
ReadOutFiles ==
  /\ pc = "done"
  /\ LET r == read_out_files(fs, self)
     IN /\ case_list' = r.case_list
        /\ baseline_list' = r.baseline_list
        /\ test_list' = r.test_list
        /\ error' = r.err
        /\ pc' = IF r.err = "none" THEN "read" ELSE "read_raised"
  /\ UNCHANGED <<args, cpu, fs, self, built, pool, norm_results>>

\* test_norm(case_list, baseline_list, test_list) on what read_out_files returned
TestNorm ==
  /\ pc = "read"
  /\ LET r == test_norm(case_list, baseline_list, test_list)
     IN /\ norm_results' = r.norm_results
        /\ error' = r.err
        /\ pc' = IF r.err = "none" THEN "normed" ELSE "norm_raised"
  /\ UNCHANGED <<args, cpu, fs, self, built, pool, case_list, baseline_list, test_list>>

\* create_results_summary(case_list, norm_results)
CreateResultsSummary ==
  /\ pc = "normed"
  /\ error' = create_results_summary(self, case_list, norm_results)
  /\ pc' = "summary_raised"
  /\ UNCHANGED <<args, cpu, fs, self, built, pool, post>>

(***************************************************************************)
(* Specifications.                                                         *)
(***************************************************************************)
Tolerances == {0, 1}

Plots == {2, 3}

FixtureDll == Module \o <<"5MW_Baseline", "ServoData", "DISCON", "build", "DISCON.dll">>

\* a run of an Executor, any arguments, with and without its fixtures
Init ==
  InitFrom(Lists(CaseNames, MaxCases), -2..MaxJobs, 1..MaxCpu, Plots, Tolerances,
           BOOLEAN, SubsetsUpTo({FixtureDll}, MaxMissing), {{}})

Next ==
  \/ Construct
  \/ RunBuildReferences
  \/ RunBuildOutputDirectories
  \/ StartPool
  \/ Launch
  \/ \E i \in 1..MaxCases, code \in ExitCodes : Exit(i, code)
  \/ Report

Spec == Init /\ [][Next]_vars

\* the runs of the plans the constructor accepts, execution enabled, under
\* the scheduling of the parallel phase: the caller goes on to create the
\* pool, an idle worker takes the next task, a running process exits (the
\* assumption under which termination is stated), and pool.map returns
FairInit ==
  InitFrom(Lists(ModelCases, MaxCases), -1..MaxJobs, 1..MaxCpu, {0}, {1}, {TRUE},
           {{}}, {{}})

FairSpec ==
  /\ FairInit
  /\ [][Next]_vars
  /\ WF_vars(StartPool)
  /\ WF_vars(Launch)
  /\ \A i \in 1..MaxCases : WF_vars(\E code \in ExitCodes : Exit(i, code))
  /\ WF_vars(Report)

\* the constructor alone, over a wide range of jobs, cpu_count() and plan sizes
ResolveInit ==
  InitFrom({[i \in 1..n |-> "AOC_WSt"] : n \in 1..MaxResolveCases},
           -2..MaxResolveJobs, 1..MaxResolveCpu, {0}, {1}, {FALSE}, {{}}, {{}})

ResolveNext == Construct

ResolveSpec == ResolveInit /\ [][ResolveNext]_vars

\* the compiler ids handed to the constructor
Compilers == {"intel", "gnu", "GNU"}

\* the constructor alone, for every system and compiler, the other arguments
\* valid
TypeInit ==
  InitOver({[case |-> c, executable |-> <<OpenfastExe, BeamdynExe>>,
             source_type |-> "str",
             compiler |-> k, system |-> s, tolerance |-> 1, plot |-> 0,
             execution |-> FALSE, jobs |-> j] :
              c \in Lists(ModelCases, 1), k \in Compilers, s \in DOMAIN SYSTEM_MAP,
              j \in -1..MaxJobs},
           1..MaxCpu, {{}}, {{}})

TypeNext == Construct

TypeSpec == TypeInit /\ [][TypeNext]_vars

\* the output file a run leaves in the local build directory of case c
LocalOutput(c) == LocalResults \o <<c, OutFile(c)>>

\* the baseline output file of case c for the output type linux-gnu
BaselineOutput(c) == InputDir(c) \o <<"linux-gnu", OutFile(c)>>

\* the cases whose outputs read_out_files compares
ComparedCases == {c \in ModelCases : CASE_MAP[c] # "linear"}

\* the post-processing of a run() without execution: the local outputs of an
\* earlier run are there or not, and a baseline output may be absent
ReadInit ==
  InitFrom(Lists(ModelCases, MaxCases), {-1}, {MaxCpu}, {0}, {1}, {FALSE},
           SubsetsUpTo({BaselineOutput(c) : c \in ComparedCases}, MaxMissing),
           SUBSET {<<LocalOutput(c), File(<<"run", c>>)>> : c \in ComparedCases})

ReadNext ==
  \/ Construct
  \/ RunBuildReferences
  \/ ReadOutFiles
  \/ TestNorm
  \/ CreateResultsSummary

ReadSpec == ReadInit /\ [][ReadNext]_vars

\* the executable lists handed to the constructor: one or two paths
Executables ==
  {x \in Lists({OpenfastExe, BeamdynExe, OpenfastWinExe}, 2) : Len(x) >= 1}

\* the runs of the plans of at least one case for every list of executables,
\* the source passed as a str or as a Path, the other arguments valid
ExeInit ==
  InitOver({[case |-> c, executable |-> x, source_type |-> t,
             compiler |-> "gnu", system |-> "Linux", tolerance |-> 1, plot |-> 0,
             execution |-> TRUE, jobs |-> -1] :
              c \in Lists(ModelCases, MaxCases) \ {<<>>}, x \in Executables,
              t \in {"str", "Path"}},
           {MaxCpu}, {{}}, {{}})

ExeSpec == ExeInit /\ [][Next]_vars

\* the fixtures that may be absent from the repository
MatGone ==
  {FixtureDll,
   Module \o <<"AOC">>,
   Module \o <<"5MW_Baseline", "Airfoils">>,
   InputDir("bd_curved_beam") \o <<"bd_primary.inp">>,
   InputDir("AOC_WSt")}

\* what may exist before the run: a local build directory, empty or with a
\* file that differs from the fixture, shared directories with such a file,
\* and files of the working directory named like an entry of an input directory
MatPresent ==
  {<<LocalResults \o <<"AOC_WSt">>, Dir>>,
   <<LocalResults \o <<"AOC_WSt", "AOC_WSt.fst">>, Stale>>,
   <<LocalResults \o <<"bd_curved_beam", "bd_driver.inp">>, Stale>>,
   <<LocalResults \o <<"AOC", "blade.dat">>, Stale>>,
   <<LocalResults \o <<"5MW_Baseline", "NRELOffshrBsline5MW_Blade.dat">>, Stale>>,
   <<LocalResults \o <<"5MW_Baseline", "ServoData", "DISCON.dll">>, Stale>>,
   <<Cwd \o <<"AOC_WSt.fst">>, Stale>>,
   <<Cwd \o <<"linux-gnu">>, Stale>>}

\* the creation of the local output directories, once and once more, for
\* the plans the constructor accepts, on any such filesystem
MatInit ==
  InitFrom(Lists(ModelCases, MaxCases), {-1}, {MaxCpu}, {0}, {1}, {TRUE},
           SubsetsUpTo(MatGone, MaxMissing), SubsetsUpTo(MatPresent, MaxPresent))

MatNext ==
  \/ Construct
  \/ RunBuildReferences
  \/ RunBuildOutputDirectories
  \/ BuildOutputDirectoriesAgain

MatSpec == MatInit /\ [][MatNext]_vars

\* the 5MW fixtures that may be absent from the repository
DllGone ==
  {FixtureDll,
   Module \o <<"5MW_Baseline", "ServoData">> \o DllFiles[3],
   Module \o <<"5MW_Baseline", "Airfoils">>}

\* what may exist under build/local_results/5MW_Baseline before the run: a
\* library or another file that differs from the fixture, or a directory
\* with the name of a library
DllPresent ==
  {<<LocalResults \o <<"5MW_Baseline", "ServoData", "DISCON.dll">>, Stale>>,
   <<LocalResults \o <<"5MW_Baseline", "ServoData", "DISCON_OC3Hywind.dll">>, Stale>>,
   <<LocalResults \o <<"5MW_Baseline", "ServoData", "DISCON_ITIBarge.dll">>, Dir>>,
   <<LocalResults \o <<"5MW_Baseline", "NRELOffshrBsline5MW_Blade.dat">>, Stale>>}

\* the creation of the local output directories, once and once more, on the
\* filesystems that differ in the 5MW assets
DllInit ==
  InitFrom(Lists(ModelCases, MaxCases), {-1}, {MaxCpu}, {0}, {1}, {TRUE},
           SubsetsUpTo(DllGone, MaxMissing), SubsetsUpTo(DllPresent, MaxPresent))

DllSpec == DllInit /\ [][MatNext]_vars

(***************************************************************************)
(* The properties.                                                         *)
(***************************************************************************)
\* the shared fixture directories under build/local_results
SharedDirs ==
  {LocalResults \o <<d>> : d \in Range(LinearDirs) \cup Range(RegressionDirs) \cup {"5MW_Baseline"}}

\* what f holds at and below the directories of roots
Tree(f, roots) ==
  [p \in {q \in DOMAIN f : \E d \in roots : IsPrefix(d, q)} |-> f[p]]

\* the number of cases of the plan
NCases == Len(args.case)

\* C1: in a run with execution enabled no external process is launched
\* before _build_test_output_directories has returned; when it raised, no
\* process is launched at all and run() has raised; and once a process
\* has been launched no step changes a shared fixture directory under
\* build/local_results.
C1_LaunchOnlyAfterBuild ==
  /\ [](launched # <<>> => built = "returned")
  /\ [](built = "raised" => launched = <<>> /\ running = {} /\ pc = "run_raised")
  /\ [][launched # <<>> => fs' = fs \/ Tree(fs', SharedDirs) = Tree(fs, SharedDirs)]_vars

\* a run that built the directories and launched every case of a plan of two
C1_Witness ==
  built = "returned" /\ Len(launched) = 2 /\ pc = "done"
    /\ isdir(fs, LocalResults \o <<"5MW_Baseline", "ServoData">>)

\* C2: for a plan of n >= 1 cases and any exit codes, _run_openfast_cases does
\* not raise, and when it has returned it holds exactly n results, one
\* for each ordinal 1..n and with that case's name; the success tally is the
\* number of cases whose process exited with 0 and the failing lines are
\* exactly the cases whose process exited with another code.
C2_EveryCaseCollected ==
  /\ built = "returned" /\ NCases >= 1 => pc # "run_raised"
  /\ pc = "done" /\ self.execution /\ NCases >= 1 =>
       /\ Len(results) = NCases
       /\ \A i \in 1..NCases :
            Cardinality({j \in 1..Len(results) :
                           results[j][2] = Ix(i, NCases) /\ results[j][3] = args.case[i]}) = 1
       /\ success = Cardinality({i \in 1..NCases : codes[i] = 0})
       /\ Len(fail) = Cardinality({i \in 1..NCases : codes[i] # 0})
       /\ Range(fail) = {<<i, args.case[i]>> : i \in {j \in 1..NCases : codes[j] # 0}}

\* a plan of two cases, one exiting with 0 and one with 2, has been tallied
C2_Witness ==
  pc = "done" /\ NCases = 2 /\ codes = <<2, 0>> /\ success = 1 /\ Len(fail) = 1

\* C3: whatever the order in which the processes exit, result i is the
\* triple of the exit code of the i-th case's own process, the ordinal i/n
\* and the i-th case's name, from the moment it is stored, and the failing
\* lines are in the order of the plan.
C3_ResultsInPlanOrder ==
  /\ pc \in {"mapping", "done"} /\ self.execution =>
       \A i \in 1..Len(results) :
          results[i] # <<>> => results[i] = <<codes[i], Ix(i, NCases), args.case[i]>>
  /\ pc = "done" /\ self.execution =>
       /\ \A i \in 1..NCases : results[i] # <<>>
       /\ \A k, l \in 1..Len(fail) : k < l => fail[k][1] < fail[l][1]

\* the second case has exited, with a failure, while the first still runs
C3_Witness ==
  pc = "mapping" /\ NCases = 2 /\ running = {1} /\ results[1] = <<>>
    /\ results[2] = <<1, Ix(2, 2), args.case[2]>>

\* C4: the resolved self.jobs is at most cpu_count() and at most the number
\* of cases, and at no moment do more than self.jobs external processes run.
C4_BoundedConcurrency ==
  pc \notin {"new", "ctor_raised"} =>
     /\ self.jobs <= cpu
     /\ self.jobs <= NCases
     /\ Cardinality(running) <= self.jobs

\* two processes run at once under a pool of two workers
C4_Witness ==
  pc = "mapping" /\ Cardinality(running) = 2 /\ self.jobs = 2

\* C5: for a plan of n >= 1 cases, once the directories are built the
\* parallel phase ends with the tally, if every process exits; when the
\* tally is printed every case has been launched and has exited, whatever the
\* exit codes of the others.
C5_WaitsForEveryCase ==
  /\ (built = "returned" /\ NCases >= 1) ~> (pc = "done")
  /\ [](success # -1 \/ (pc = "done" /\ self.execution) =>
          /\ Len(launched) = NCases
          /\ running = {}
          /\ \A i \in 1..NCases : codes[i] \in ExitCodes)

\* the tally of a plan of two cases whose first case failed
C5_Witness ==
  pc = "done" /\ NCases = 2 /\ codes = <<1, 0>> /\ Len(launched) = 2 /\ success = 1

\* the least integer that is at least 0.8 * a
Ceil08(a) == CHOOSE k \in 0..a : 10 * k >= 8 * a /\ 10 * (k - 1) < 8 * a

\* C6: for a requested jobs r >= -1, A = cpu_count() >= 1 and n >= 1 cases,
\* the constructor resolves self.jobs to min(ceil(0.8 A), n) when r is -1 or
\* 0 and to min(r, A, n) when r > 0: 3 for A = 10, n = 3, r = -1; 8 for
\* A = 10, n = 20, r = -1; at most 4 for A = 4, r = 5.
C6_ResolvedJobs ==
  pc = "constructed" /\ args.jobs >= -1 /\ cpu >= 1 /\ NCases >= 1 =>
     /\ args.jobs \in {-1, 0} => self.jobs = Min(Ceil08(cpu), NCases)
     /\ args.jobs > 0 => self.jobs = Min(Min(args.jobs, cpu), NCases)
     /\ cpu = 10 /\ NCases = 3 /\ args.jobs = -1 => self.jobs = 3
     /\ cpu = 10 /\ NCases = 20 /\ args.jobs = -1 => self.jobs = 8
     /\ cpu = 4 /\ args.jobs = 5 => self.jobs <= 4

\* jobs = 0 on ten cores with twenty cases resolves to 8
C6_Witness ==
  pc = "constructed" /\ args.jobs = 0 /\ cpu = 10 /\ NCases = 20 /\ self.jobs = 8

\* a configuration the constructor is to refuse: a case that is no key of
\* CASE_MAP, a plot outside (0, 1, 2), jobs below -1, a tolerance not above 0
BadConfiguration ==
  \/ \E i \in 1..NCases : args.case[i] \notin DOMAIN CASE_MAP
  \/ args.plot \notin PlotOpts
  \/ args.jobs < -1
  \/ args.tolerance <= 0

\* C7: every configuration error is raised by the constructor: with an
\* unknown case name, a plot outside (0, 1, 2), jobs < -1 or a tolerance <= 0
\* the Executor is never constructed, so that run() never builds directory
\* references, writes to the filesystem or launches a process for it.
C7_ConfigurationErrorsAtConstruction ==
  BadConfiguration => pc \in {"new", "ctor_raised"}

\* the files and directories under build/local_results
LocalTree(f) == Tree(f, {LocalResults})

\* C8: after a _build_test_output_directories that returned, a second one
\* on the same Executor returns too and leaves every file and directory
\* under build/local_results as it was.
C8_BuildTwiceIsBuildOnce ==
  [][pc = "built" /\ pc' # "built" =>
       pc' = "rebuilt" /\ LocalTree(fs') = LocalTree(fs)]_vars

\* C9: no step changes or removes a file that exists under
\* build/local_results: only absent files are written.
C9_NoOverwrite ==
  [][\A p \in DOMAIN fs :
       IsPrefix(LocalResults, p) /\ isfile(fs, p) => p \in DOMAIN fs' /\ fs'[p] = fs[p]]_vars

\* C10: after a _build_test_output_directories that returned, the local
\* build directory of every case exists and holds a file for every file of the
\* case's input directory, the baseline results aside.
C10_FixturesCopied ==
  built = "returned" =>
     \A i \in 1..NCases :
        /\ isdir(fs, self.test_build[i])
        /\ \A name \in listdir(fs, self.inputs[i]) \ IgnoreBaseline :
              isfile(fs, self.inputs[i] \o <<name>>) =>
                 isfile(fs, self.test_build[i] \o <<name>>)

\* C11: for every valid plan the constructor accepts, the tasks handed to the pool
\* have pairwise different local build directories, none of them a shared
\* fixture directory under build/local_results, so that no two processes
\* running at once have the same directory.
C11_DisjointBuildDirectories ==
  ~BadConfiguration =>
     /\ \A i, j \in 1..Len(tasks) : i # j => tasks[i][3] # tasks[j][3]
     /\ \A i \in 1..Len(tasks) : tasks[i][3] \notin SharedDirs
     /\ \A i, j \in running : i # j => tasks[i][3] # tasks[j][3]

\* C19: for every valid configuration the constructor accepts, the empty case list
\* included, self.jobs is at least 1 when _run_openfast_cases creates the
\* pool, and the creation of the pool does not raise.
C19_PoolHasAWorker ==
  ~BadConfiguration =>
     /\ pc = "built" => self.jobs >= 1
     /\ built = "returned" => pc # "run_raised"

\* the output type of each system identifier and compiler: their join when
\* it is one of the four baselines, "macos-gnu" otherwise
SelectedType ==
  [s \in {"macos", "linux", "windows"}, k \in {"intel", "gnu"} |->
     CASE s = "macos" /\ k = "gnu" -> "macos-gnu"
       [] s = "linux" /\ k = "intel" -> "linux-intel"
       [] s = "linux" /\ k = "gnu" -> "linux-gnu"
       [] s = "windows" /\ k = "intel" -> "windows-intel"
       [] OTHER -> "macos-gnu"]

\* C12: for every system (the identifier macos, linux or windows that
\* SYSTEM_MAP gives for the `system` argument) and compiler intel or gnu, the
\* constructor raises nothing and output_type is "<system>-<compiler>" when
\* that is macos-gnu, linux-intel, linux-gnu or windows-intel and macos-gnu
\* otherwise: windows-gnu and macos-intel resolve to macos-gnu.
C12_OutputTypeSelection ==
  pc # "new" /\ args.compiler \in {"intel", "gnu"} =>
     /\ pc = "constructed"
     /\ self.output_type = SelectedType[SYSTEM_MAP[args.system], args.compiler]
     /\ args.system = "Windows" /\ args.compiler = "gnu" => self.output_type = "macos-gnu"

\* windows-gnu has been resolved to macos-gnu
C12_Witness ==
  pc = "constructed" /\ args.system = "Windows" /\ args.compiler = "gnu"
    /\ self.output_type = "macos-gnu"

\* the cases of the model whose local and baseline output files both exist
ValidNames ==
  {c \in ComparedCases : isfile(fs, LocalOutput(c)) /\ isfile(fs, BaselineOutput(c))}

\* read_out_files has ended, by a return or by an exception
ReadEnded == pc \in {"read", "read_raised"}

\* C13: for a plan of regression and beamdyn cases, read_out_files returns
\* whatever output file is missing, and the cases it returns are exactly the
\* cases of the plan whose local and baseline output files both exist, in the
\* order of the plan: a case with a missing file is left out and the others
\* are loaded.
C13_MissingOutputSkipsCase ==
  ReadEnded /\ (\A i \in 1..NCases : CASE_MAP[args.case[i]] # "linear") =>
     /\ pc = "read"
     /\ case_list = Select(args.case, ValidNames)

\* C14: for a plan with a linear case whose other cases have both output
\* files, read_out_files returns, and the cases it returns are the cases of
\* the plan that are not linear, in the order of the plan.
C14_LinearCaseSkipped ==
  /\ ReadEnded
  /\ \E i \in 1..NCases : CASE_MAP[args.case[i]] = "linear"
  /\ \A i \in 1..NCases : CASE_MAP[args.case[i]] # "linear" => args.case[i] \in ValidNames
  => /\ pc = "read"
     /\ case_list = Select(args.case, ComparedCases)

\* the cases of the plan that read_out_files left out
Skipped == {i \in 1..NCases : args.case[i] \notin Range(case_list)}

\* C15: the post-processing of every run gets to its report without an
\* exception, and there every case of the plan has one outcome: a verdict
\* (pass or fail) for each case compared, skipped for each case left out, so
\* that passed + failed + skipped is the number of cases of the plan.
C15_OutcomesSumToTotal ==
  /\ pc \notin {"read_raised", "norm_raised", "summary_raised"}
  /\ pc = "normed" =>
       /\ Len(norm_results) = Len(case_list)
       /\ Len(norm_results) + Cardinality(Skipped) = NCases

\* the norms calculate_norms gives for a pair, as a term of the pair
NormsOf(baseline, test) == <<"norms", baseline, test>>

\* C18: test_norm returns, with one result for each case of case_list, in
\* order, the i-th being the norms of baseline_list[i] and test_list[i].
C18_NormOfOwnPair ==
  pc \in {"normed", "norm_raised"} =>
     /\ pc = "normed"
     /\ Len(norm_results) = Len(case_list)
     /\ \A i \in 1..Len(case_list) :
           norm_results[i] = NormsOf(baseline_list[i], test_list[i])

\* the paths of the list whose filename has the beamdyn suffix, and the others
SuppliedBeamdyn == {e \in Range(args.executable) : Basename(e) = "beamdyn_driver"}

SuppliedGeneral == Range(args.executable) \ SuppliedBeamdyn

\* C16: for a list of one or two executables, at most one of them with the
\* beamdyn suffix and at most one without, an Executor that was constructed
\* has the beamdyn-suffixed path as bd_executable and the other path as
\* of_executable; every beamdyn case is launched with the first and every
\* other case with the second, when the list has such a path.
C16_ExecutableSelection ==
  Cardinality(SuppliedBeamdyn) <= 1 /\ Cardinality(SuppliedGeneral) <= 1 =>
     /\ pc \notin {"new", "ctor_raised"} =>
          /\ \A e \in SuppliedBeamdyn : self.bd_executable = e
          /\ \A e \in SuppliedGeneral : self.of_executable = e
     /\ \A k \in 1..Len(launched) :
          /\ launched[k].beamdyn /\ SuppliedBeamdyn # {} => launched[k].exe \in SuppliedBeamdyn
          /\ ~launched[k].beamdyn /\ SuppliedGeneral # {} => launched[k].exe \in SuppliedGeneral

\* the ServoData directory of the fixtures and the one under build/local_results
ServoSource == Module \o <<"5MW_Baseline", "ServoData">>

ServoLocal == LocalResults \o <<"5MW_Baseline", "ServoData">>

\* the plan has a case with "5MW" in its name
PlanHas5MW == \E i \in 1..NCases : args.case[i] \in Names5MW

\* a step in which _build_test_output_directories returned
BuildReturns ==
  \/ pc = "references" /\ pc' = "built"
  \/ pc = "built" /\ pc' = "rebuilt"

\* C17: for a plan with a 5MW case, when _build_test_output_directories has
\* returned, build/local_results/5MW_Baseline/ServoData is a directory that
\* holds the three libraries: one that was there before is as it was (not
\* copied again), one that was not is the copy of its source under the
\* fixtures' ServoData.
C17_DllsPresentAfterBuild ==
  [][BuildReturns /\ PlanHas5MW =>
       /\ isdir(fs', ServoLocal)
       /\ \A k \in 1..Len(DllFiles) :
            LET dll == ServoLocal \o <<Basename(DllFiles[k])>>
            IN /\ isfile(fs', dll)
               /\ fs'[dll] = IF isfile(fs, dll) THEN fs[dll] ELSE fs[ServoSource \o DllFiles[k]]]_vars

\* a 5MW plan has been built where DISCON.dll was there before and is as it
\* was, and DISCON_ITIBarge.dll has been copied from the fixtures
C17_Witness ==
  /\ built = "returned" /\ PlanHas5MW
  /\ isfile(fs, ServoLocal \o <<"DISCON.dll">>)
  /\ fs[ServoLocal \o <<"DISCON.dll">>] = Stale
  /\ isfile(fs, ServoLocal \o <<"DISCON_ITIBarge.dll">>)
  /\ fs[ServoLocal \o <<"DISCON_ITIBarge.dll">>] = fs[ServoSource \o DllFiles[2]]

\* the fixtures of the cases of the plan and of their categories are all
\* there, and nothing is under build/local_results or in the working directory
NothingElseMissing ==
  /\ \A i \in 1..NCases :
        \A p \in CaseFixtures(args.case[i]) \cup {InputDir(args.case[i])} : p \in DOMAIN fs
  /\ \A d \in Range(Directories({CASE_MAP[args.case[i]] : i \in 1..NCases})) :
        Module \o <<d, "blade.dat">> \in DOMAIN fs
  /\ \A p \in DOMAIN fs : p # Cwd => ~IsPrefix(LocalResults, p) /\ ~IsPrefix(Cwd, p)

\* C20: for a plan of at least one case, none with "5MW" in its name, the
\* first _build_test_output_directories leaves build/local_results/5MW_Baseline
\* as it was, absent when it was absent, and it returns when nothing but the
\* fixtures' 5MW_Baseline or its libraries is missing.
C20_No5MWAssetsWithout5MWCase ==
  [][pc = "references" /\ NCases >= 1 /\ ~PlanHas5MW =>
       /\ Tree(fs', {LocalResults \o <<"5MW_Baseline">>})
             = Tree(fs, {LocalResults \o <<"5MW_Baseline">>})
       /\ NothingElseMissing => pc' = "built"]_vars

\* the 5MW_Baseline directory of the fixtures and the one under build/local_results
Baseline5MWSource == Module \o <<"5MW_Baseline">>

Baseline5MWLocal == LocalResults \o <<"5MW_Baseline">>

\* C21: when the first _build_test_output_directories of a plan with a 5MW
\* case returns and there was no build/local_results/5MW_Baseline before it,
\* every file and directory below the fixtures' 5MW_Baseline, those of its
\* ServoData included, has its copy at the same place below
\* build/local_results/5MW_Baseline.
C21_Whole5MWBaselineCopied ==
  [][pc = "references" /\ pc' = "built" /\ PlanHas5MW /\ Baseline5MWLocal \notin DOMAIN fs =>
       \A p \in DOMAIN fs :
          IsPrefix(Baseline5MWSource, p) /\ p # Baseline5MWSource =>
             LET q == Baseline5MWLocal \o SubSeq(p, Len(Baseline5MWSource) + 1, Len(p))
             IN q \in DOMAIN fs' /\ fs'[q] = fs[p]]_vars

====
